---- MODULE Spec2Model ----
(***************************************************************************)
(* The live simulation cockpit (SimulationPage) and its decision form      *)
(* (DecisionModal) as a state machine.  One action per React handler,      *)
(* interval callback or promise completion.  All callbacks run on the      *)
(* single JavaScript thread, so each is one atomic step; an `await` splits *)
(* a handler into the step that issues the call and the step that handles  *)
(* its resolution or rejection.                                            *)
(***************************************************************************)
EXTENDS Integers, Sequences, FiniteSets, TLC

(* ------------------------------ bounds -------------------------------- *)
\* cap of the session clock (useState elapsed of SimulationPage)
MaxClock == 1
\* cap of the decision timer (useState elapsed of DecisionModal)
MaxTimer == 1
\* external calls (get-logs, analyze-threat, submit-decision) that may be
\* in flight at once
MaxInFlight == 2
\* cap of the 'decisions made' counter
MaxDecisions == 1
\* the most events one answer of GET /get-logs holds (`limit` of fetchLogs)
Limit == 10
\* the most decisions a session has made when its accuracy is rendered
MaxMade == 12

(* ------------------------------ values -------------------------------- *)
\* JavaScript null, the initial value of selectedLog and analysis
Null == [null |-> TRUE]

\* No external call issued / no toast raised by the step just taken
NoCall == [api |-> "none"]
NoToast == "none"

\* The call fetchLogs issues
GetLogs == [api |-> "get-logs"]

\* The handler that ran in the last step: its name, the id of the event it
\* was called for or whose call completed (0 when it has none), and the
\* `correct` answer of the scoring service (FALSE when it has none)
Act(name) == [name |-> name, log_id |-> 0, correct |-> FALSE]
ActOn(name, log) == [name |-> name, log_id |-> log.id, correct |-> FALSE]

\* The fallback label of `threat_label || 'brute_force'`
DefaultLabel == "brute_force"

\* Two events of the stream: one with a recorded threat label, one without
\* (an absent threat_label is falsy, written "" here).
E1 == [id |-> 1, severity |-> "critical", is_anomaly |-> TRUE, threat_label |-> "phishing"]
E2 == [id |-> 2, severity |-> "high", is_anomaly |-> FALSE, threat_label |-> ""]
Events == {E1, E2}
EventIds == {e.id : e \in Events}

\* The snapshots GET /get-logs may answer with
Snapshots == {<<E1>>, <<E1, E2>>}

\* An event of the stream with the fields the cockpit reads
Event(id, severity, is_anomaly, threat_label) ==
    [id |-> id, severity |-> severity, is_anomaly |-> is_anomaly,
     threat_label |-> threat_label]

\* The events of one session at the event source, oldest first: every label
\* of THREAT_COLORS, a label carried twice, one event without a label, one
\* benign event, a label outside THREAT_COLORS that reads as a number, and
\* enough critical anomalies to pass a score of 100
EventStream ==
    <<E1, E2,
      Event(3, "critical", TRUE, "ransomware"),
      Event(4, "critical", TRUE, "zero_day"),
      Event(5, "critical", TRUE, "ddos"),
      Event(6, "medium", TRUE, "sql_injection"),
      Event(7, "critical", TRUE, "lateral_movement"),
      Event(8, "critical", TRUE, "data_exfil"),
      Event(9, "critical", TRUE, "brute_force"),
      Event(10, "low", FALSE, "benign"),
      Event(11, "critical", TRUE, "ransomware"),
      Event(12, "critical", TRUE, "404")>>

\* The events of EventStream at the positions `at` from `i` on, in stream
\* order
RECURSIVE Pick(_, _)
Pick(i, at) ==
    IF i > Len(EventStream)
    THEN <<>>
    ELSE (IF i \in at THEN <<EventStream[i]>> ELSE <<>>) \o Pick(i + 1, at)

\* What the Event Store may hold: any events of the stream, at most Limit
StoreContents ==
    {Pick(1, at) : at \in {a \in SUBSET (1..Len(EventStream)) : Cardinality(a) <= Limit}}

\* What one poll may be answered with: a run of consecutive events
Windows ==
    {SubSeq(EventStream, w[1], w[2]) :
        w \in {v \in (1..(Len(EventStream) + 1)) \X (0..Len(EventStream)) :
                  v[2] >= v[1] - 1 /\ v[2] - v[1] < Limit}}

\* The classifications the form's <select> offers (a subset of THREAT_LABELS)
THREAT_LABELS == {"brute_force", "phishing"}

\* The response body of POST /analyze-threat for the event `log`
AnalysisOf(log) == [log_id |-> log.id]

Range(s) == {s[i] : i \in 1..Len(s)}

VARIABLES
    logs,            \* useState([])     Event Store
    selectedLog,     \* useState(null)
    analysis,        \* useState(null)   Analysis Result
    analysing,       \* useState(false)
    showModal,       \* useState(false)  decision-form flag
    stopping,        \* useState(false)
    elapsed,         \* useState(0)      session clock
    decisionsCount,  \* useState(0)
    correctCount,    \* useState(0)
    paused,          \* useState(false)
    modal,           \* state of the mounted DecisionModal, or Null
    fetching,        \* number of GET /get-logs calls in flight
    analyzeCalls,    \* event -> number of POST /analyze-threat calls in flight
    submitting,      \* number of POST /submit-decision calls in flight
    stopPhase,       \* "live", "call" (stop call in flight), "timer", "report"
    sinceSelect,     \* history: decision-timer ticks since the last select
    lastPoll,        \* history: the last answer of GET /get-logs that was stored
    formLog,         \* history: id of the event the mounted form was opened for
    succeeded,       \* history: POST /submit-decision calls that have resolved
    submits,         \* history: the submit calls issued since the last select
    feed,            \* history: the order of the fetches and the clock interval
    lastAct,         \* history: the handler that ran in the last step
    sent,            \* the external call issued by the last step, or NoCall
    toast            \* the notice raised by the last step, or NoToast

vars == <<logs, selectedLog, analysis, analysing, showModal, stopping, elapsed,
          decisionsCount, correctCount, paused, modal, fetching, analyzeCalls,
          submitting, stopPhase, sinceSelect, lastPoll, formLog, succeeded,
          submits, feed, lastAct, sent,
          toast>>

\* The variables of the Decision Workflow and of the session aggregates
workflow == <<selectedLog, analysis, analysing, showModal, modal>>
counters == <<decisionsCount, correctCount>>
polling == <<logs, paused, fetching>>
session == <<stopping, stopPhase, elapsed>>

\* The history variables, which no handler of the program reads or writes
calls == <<succeeded, submits, feed>>
history == <<sinceSelect, lastPoll, formLog, calls>>

\* The calls in flight, and whether the bound lets one more be issued
InFlight == fetching + analyzeCalls[1] + analyzeCalls[2] + submitting
MayIssue == InFlight < MaxInFlight

\* SimulationPage is mounted until navigate() replaces it with the report
Mounted == stopPhase # "report"

(* --------------------------- DecisionModal ----------------------------- *)
\* useState initialisers of a freshly mounted DecisionModal
NewModal(log) ==
    [label |-> IF log.threat_label # "" THEN log.threat_label ELSE DefaultLabel,
     elapsed |-> 0]

\* {showModal && selectedLog && <DecisionModal .../>}: the form is mounted when
\* the condition turns true, keeps its state while it stays true (also when
\* the log prop changes) and is unmounted when it turns false.
Render(show, log) ==
    IF show /\ log # Null
    THEN IF modal = Null THEN NewModal(log) ELSE modal
    ELSE Null

(* ------------------------------ Init ---------------------------------- *)
\* The state after the first render and its mount effect, which calls
\* fetchLogs() once and starts both intervals.
Init ==
    /\ logs = <<>>
    /\ selectedLog = Null
    /\ analysis = Null
    /\ analysing = FALSE
    /\ showModal = FALSE
    /\ stopping = FALSE
    /\ elapsed = 0
    /\ decisionsCount = 0
    /\ correctCount = 0
    /\ paused = FALSE
    /\ modal = Null
    /\ fetching = 1
    /\ analyzeCalls = [i \in EventIds |-> 0]
    /\ submitting = 0
    /\ stopPhase = "live"
    /\ sinceSelect = 0
    /\ lastPoll = [data |-> <<>>, before |-> 0]
    /\ formLog = 0
    /\ succeeded = 0
    /\ submits = [cur |-> 0, done |-> 0, of |-> 0, old |-> 0]
    /\ feed = [stale |-> 0, regressed |-> FALSE, restarted |-> FALSE]
    /\ lastAct = Act("mount")
    /\ sent = GetLogs
    /\ toast = NoToast

(* --------------------------- Stream Synchronizer ----------------------- *)
\* What every step that is no external call and raises no notice leaves
Quiet(act) ==
    /\ lastAct' = Act(act)
    /\ sent' = NoCall
    /\ toast' = NoToast

\* A faulty pollTick: the interval keeps the fetchLogs of the render in
\* which the feed was paused, so the pause test is the wrong way round
pollTickStale ==
    /\ Mounted
    /\ lastAct' = Act("pollTick")
    /\ toast' = NoToast
    /\ IF ~paused
       THEN /\ sent' = NoCall
            /\ fetching' = fetching
       ELSE /\ MayIssue
            /\ sent' = GetLogs
            /\ fetching' = fetching + 1
    /\ UNCHANGED <<logs, paused, workflow, counters, session, analyzeCalls,
                   submitting>>

\* setInterval(fetchLogs, 3500) fires.  fetchLogs returns at once when
\* paused (the tick is dropped), and issues GET /get-logs otherwise.
pollTick ==
    /\ Mounted
    /\ lastAct' = Act("pollTick")
    /\ toast' = NoToast
    /\ IF paused
       THEN /\ sent' = NoCall
            /\ fetching' = fetching
       ELSE /\ MayIssue
            /\ sent' = GetLogs
            /\ fetching' = fetching + 1
    /\ UNCHANGED <<logs, paused, workflow, counters, session, analyzeCalls,
                   submitting>>

\* A faulty fetchResolved: a selected event that the new snapshot no longer
\* holds is deselected
fetchResolvedReconciles(data) ==
    /\ Mounted
    /\ fetching > 0
    /\ fetching' = fetching - 1
    /\ logs' = data
    /\ selectedLog' = IF selectedLog \in Range(data) THEN selectedLog ELSE Null
    /\ modal' = Render(showModal, selectedLog')
    /\ Quiet("fetchResolved")
    /\ UNCHANGED <<paused, analysis, analysing, showModal, counters, session,
                   analyzeCalls, submitting>>

\* A faulty fetchResolved: setLogs(prev => [...prev, ...data])
fetchResolvedAppends(data) ==
    /\ Mounted
    /\ fetching > 0
    /\ fetching' = fetching - 1
    /\ logs' = logs \o data
    /\ Quiet("fetchResolved")
    /\ UNCHANGED <<paused, workflow, counters, session, analyzeCalls,
                   submitting>>

\* The awaited GET /get-logs resolves with `data`: setLogs(data)
fetchResolved(data) ==
    /\ Mounted
    /\ fetching > 0
    /\ fetching' = fetching - 1
    /\ logs' = data
    /\ Quiet("fetchResolved")
    /\ UNCHANGED <<paused, workflow, counters, session, analyzeCalls,
                   submitting>>

\* A faulty fetchRejected: catch { setLogs([]) }
fetchRejectedClears ==
    /\ Mounted
    /\ fetching > 0
    /\ fetching' = fetching - 1
    /\ logs' = <<>>
    /\ Quiet("fetchRejected")
    /\ UNCHANGED <<paused, workflow, counters, session, analyzeCalls,
                   submitting>>

\* The awaited GET /get-logs rejects: catch {}
fetchRejected ==
    /\ Mounted
    /\ fetching > 0
    /\ fetching' = fetching - 1
    /\ Quiet("fetchRejected")
    /\ UNCHANGED <<logs, paused, workflow, counters, session, analyzeCalls,
                   submitting>>

\* The PAUSE/RESUME FEED button: setPaused(p => !p).  fetchLogs depends on
\* paused, so the polling effect is torn down and run again: it calls the new
\* fetchLogs() at once (a fetch when the feed was resumed, nothing when it was
\* paused) and restarts both intervals.
togglePaused ==
    /\ Mounted
    /\ paused' = ~paused
    /\ lastAct' = Act("togglePaused")
    /\ toast' = NoToast
    /\ IF paused
       THEN /\ MayIssue
            /\ sent' = GetLogs
            /\ fetching' = fetching + 1
       ELSE /\ sent' = NoCall
            /\ fetching' = fetching
    /\ UNCHANGED <<logs, workflow, counters, session, analyzeCalls,
                   submitting>>

(* ------------------------------ Session Clock -------------------------- *)
\* setInterval(() => setElapsed(e => e + 1), 1000) of SimulationPage fires
clockTick ==
    /\ Mounted
    /\ elapsed < MaxClock
    /\ elapsed' = elapsed + 1
    /\ Quiet("clockTick")
    /\ UNCHANGED <<polling, workflow, counters, stopping, stopPhase,
                   analyzeCalls, submitting>>

(* ---------------------------- Decision Workflow ------------------------ *)
\* analyzeLog(log) up to its await: an entry of the feed or of the log table
\* is activated.  The decision form covers the page but takes no focus, so
\* the table's ANALYZE buttons stay reachable while the form is open.
analyzeLog(log) ==
    /\ Mounted
    /\ log \in Range(logs)
    /\ MayIssue
    /\ selectedLog' = log
    /\ analysis' = Null
    /\ analysing' = TRUE
    /\ showModal' = showModal
    /\ modal' = Render(showModal', selectedLog')
    /\ analyzeCalls' = [analyzeCalls EXCEPT ![log.id] = @ + 1]
    /\ lastAct' = ActOn("analyzeLog", log)
    /\ sent' = [api |-> "analyze-threat", log_id |-> log.id]
    /\ toast' = NoToast
    /\ UNCHANGED <<polling, counters, session, submitting>>

\* A faulty analyzeResolved: setAnalysis(data) without setShowModal(true)
analyzeResolvedStaysClosed(log) ==
    /\ Mounted
    /\ analyzeCalls[log.id] > 0
    /\ analyzeCalls' = [analyzeCalls EXCEPT ![log.id] = @ - 1]
    /\ analysis' = AnalysisOf(log)
    /\ analysing' = FALSE
    /\ lastAct' = ActOn("analyzeResolved", log)
    /\ sent' = NoCall
    /\ toast' = NoToast
    /\ UNCHANGED <<selectedLog, showModal, modal, polling, counters, session,
                   submitting>>

\* The awaited POST /analyze-threat of analyzeLog(log) resolves:
\* setAnalysis(data); setShowModal(true); finally setAnalysing(false)
analyzeResolved(log) ==
    /\ Mounted
    /\ analyzeCalls[log.id] > 0
    /\ analyzeCalls' = [analyzeCalls EXCEPT ![log.id] = @ - 1]
    /\ analysis' = AnalysisOf(log)
    /\ showModal' = TRUE
    /\ analysing' = FALSE
    /\ selectedLog' = selectedLog
    /\ modal' = Render(showModal', selectedLog')
    /\ lastAct' = ActOn("analyzeResolved", log)
    /\ sent' = NoCall
    /\ toast' = NoToast
    /\ UNCHANGED <<polling, counters, session, submitting>>

\* The awaited POST /analyze-threat rejects:
\* toast.error('Analysis failed'); finally setAnalysing(false)
analyzeRejected(log) ==
    /\ Mounted
    /\ analyzeCalls[log.id] > 0
    /\ analyzeCalls' = [analyzeCalls EXCEPT ![log.id] = @ - 1]
    /\ analysing' = FALSE
    /\ lastAct' = ActOn("analyzeRejected", log)
    /\ sent' = NoCall
    /\ toast' = "error"
    /\ UNCHANGED <<selectedLog, analysis, showModal, modal, polling, counters,
                   session, submitting>>

\* The OPEN DECISION FORM button of the sidebar, rendered when
\* !analysing && selectedLog && analysis && !showModal: setShowModal(true)
openDecisionForm ==
    /\ Mounted
    /\ ~analysing /\ selectedLog # Null /\ analysis # Null /\ ~showModal
    /\ showModal' = TRUE
    /\ modal' = Render(showModal', selectedLog)
    /\ Quiet("openDecisionForm")
    /\ UNCHANGED <<selectedLog, analysis, analysing, polling, counters,
                   session, analyzeCalls, submitting>>

\* A faulty onClose: the form's close also drops the selection
onCloseDeselects ==
    /\ Mounted
    /\ modal # Null
    /\ showModal' = FALSE
    /\ selectedLog' = Null
    /\ modal' = Null
    /\ Quiet("onClose")
    /\ UNCHANGED <<analysis, analysing, polling, counters,
                   session, analyzeCalls, submitting>>

\* onClose of the form (the X and CANCEL buttons): setShowModal(false)
onClose ==
    /\ Mounted
    /\ modal # Null
    /\ showModal' = FALSE
    /\ modal' = Render(showModal', selectedLog)
    /\ Quiet("onClose")
    /\ UNCHANGED <<selectedLog, analysis, analysing, polling, counters,
                   session, analyzeCalls, submitting>>

\* The classification <select> of the form: setLabel(e.target.value)
setLabel(l) ==
    /\ Mounted
    /\ modal # Null
    /\ l # modal.label
    /\ modal' = [modal EXCEPT !.label = l]
    /\ Quiet("setLabel")
    /\ UNCHANGED <<selectedLog, analysis, analysing, showModal, polling,
                   counters, session, analyzeCalls, submitting>>

\* setInterval(() => setElapsed(e => e + 1), 1000) of the mounted form fires
modalTick ==
    /\ Mounted
    /\ modal # Null
    /\ modal.elapsed < MaxTimer
    /\ modal' = [modal EXCEPT !.elapsed = @ + 1]
    /\ Quiet("modalTick")
    /\ UNCHANGED <<selectedLog, analysis, analysing, showModal, polling,
                   counters, session, analyzeCalls, submitting>>

\* A faulty DecisionPayload: the event's label is sent as it is, without
\* the `|| 'brute_force'`
DecisionPayloadNoDefault(log, label, timeTaken) ==
    [api |-> "submit-decision",
     log_id |-> log.id,
     analyst_label |-> label,
     correct_label |-> log.threat_label,
     time_taken_sec |-> timeTaken]

\* The body of POST /submit-decision built by submitDecision
DecisionPayload(log, label, timeTaken) ==
    [api |-> "submit-decision",
     log_id |-> log.id,
     analyst_label |-> label,
     correct_label |-> IF log.threat_label # "" THEN log.threat_label ELSE DefaultLabel,
     time_taken_sec |-> timeTaken]

\* The SUBMIT DECISION button: onSubmit({label, action, notes, timeTaken:
\* elapsed}) runs submitDecision up to its await.  The button is rendered
\* only with a selected log, so `if (!selectedLog) return` never returns.
\* `cap` bounds the decisions made and being made.
submitDecisionWithin(cap) ==
    /\ Mounted
    /\ modal # Null
    /\ MayIssue
    /\ decisionsCount + submitting < cap
    /\ submitting' = submitting + 1
    /\ lastAct' = Act("submitDecision")
    /\ sent' = DecisionPayload(selectedLog, modal.label, modal.elapsed)
    /\ toast' = NoToast
    /\ UNCHANGED <<workflow, polling, counters, session, analyzeCalls>>

submitDecision == submitDecisionWithin(MaxDecisions)

\* A faulty submitResolved: setDecisionsCount runs only for a correct
\* decision
submitResolvedCountsCorrect(correct) ==
    /\ Mounted
    /\ submitting > 0
    /\ submitting' = submitting - 1
    /\ decisionsCount' = IF correct THEN decisionsCount + 1 ELSE decisionsCount
    /\ correctCount' = IF correct THEN correctCount + 1 ELSE correctCount
    /\ showModal' = FALSE
    /\ selectedLog' = Null
    /\ modal' = Null
    /\ lastAct' = [Act("submitResolved") EXCEPT !.correct = correct]
    /\ sent' = NoCall
    /\ toast' = IF correct THEN "success" ELSE "warn"
    /\ UNCHANGED <<analysis, analysing, polling, session, analyzeCalls>>

\* A faulty submitResolved: setCorrectCount runs outside the `if`
submitResolvedCountsAll(correct) ==
    /\ Mounted
    /\ submitting > 0
    /\ submitting' = submitting - 1
    /\ decisionsCount' = decisionsCount + 1
    /\ correctCount' = correctCount + 1
    /\ showModal' = FALSE
    /\ selectedLog' = Null
    /\ modal' = Null
    /\ lastAct' = [Act("submitResolved") EXCEPT !.correct = correct]
    /\ sent' = NoCall
    /\ toast' = IF correct THEN "success" ELSE "warn"
    /\ UNCHANGED <<analysis, analysing, polling, session, analyzeCalls>>

\* The awaited POST /submit-decision resolves with {correct}:
\* setDecisionsCount(c => c + 1); if (data.correct) setCorrectCount(c => c + 1)
\* and a toast either way; setShowModal(false); setSelectedLog(null)
submitResolved(correct) ==
    /\ Mounted
    /\ submitting > 0
    /\ submitting' = submitting - 1
    /\ decisionsCount' = decisionsCount + 1
    /\ correctCount' = IF correct THEN correctCount + 1 ELSE correctCount
    /\ showModal' = FALSE
    /\ selectedLog' = Null
    /\ modal' = Render(showModal', selectedLog')
    /\ lastAct' = [Act("submitResolved") EXCEPT !.correct = correct]
    /\ sent' = NoCall
    /\ toast' = IF correct THEN "success" ELSE "warn"
    /\ UNCHANGED <<analysis, analysing, polling, session, analyzeCalls>>

\* A faulty submitRejected: setDecisionsCount runs before the await
submitRejectedCounts ==
    /\ Mounted
    /\ submitting > 0
    /\ submitting' = submitting - 1
    /\ decisionsCount' = decisionsCount + 1
    /\ lastAct' = Act("submitRejected")
    /\ sent' = NoCall
    /\ toast' = "error"
    /\ UNCHANGED <<workflow, polling, correctCount, session, analyzeCalls>>

\* A faulty submitRejected: the catch also closes the form
submitRejectedCloses ==
    /\ Mounted
    /\ submitting > 0
    /\ submitting' = submitting - 1
    /\ showModal' = FALSE
    /\ modal' = Null
    /\ lastAct' = Act("submitRejected")
    /\ sent' = NoCall
    /\ toast' = "error"
    /\ UNCHANGED <<selectedLog, analysis, analysing, polling, counters, session,
                   analyzeCalls>>

\* The awaited POST /submit-decision rejects:
\* toast.error('Failed to submit decision')
submitRejected ==
    /\ Mounted
    /\ submitting > 0
    /\ submitting' = submitting - 1
    /\ lastAct' = Act("submitRejected")
    /\ sent' = NoCall
    /\ toast' = "error"
    /\ UNCHANGED <<workflow, polling, counters, session, analyzeCalls>>

(* ---------------------------- Cockpit Controller ----------------------- *)
\* A faulty stopSimulation: the button without disabled={stopping}
stopSimulationAlways ==
    /\ Mounted
    /\ stopPhase \in {"live", "call", "timer"}
    /\ stopping' = TRUE
    /\ stopPhase' = "call"
    /\ lastAct' = Act("stopSimulation")
    /\ sent' = [api |-> "stop-simulation"]
    /\ toast' = NoToast
    /\ UNCHANGED <<elapsed, workflow, polling, counters, analyzeCalls,
                   submitting>>

\* The STOP & SCORE button (disabled={stopping}): stopSimulation up to its
\* await: setStopping(true), POST /stop-simulation
stopSimulation ==
    /\ Mounted
    /\ ~stopping
    /\ stopping' = TRUE
    /\ stopPhase' = "call"
    /\ lastAct' = Act("stopSimulation")
    /\ sent' = [api |-> "stop-simulation"]
    /\ toast' = NoToast
    /\ UNCHANGED <<elapsed, workflow, polling, counters, analyzeCalls,
                   submitting>>

\* The awaited POST /stop-simulation resolves: toast.success(...) and
\* setTimeout(() => navigate(`/report/${id}`), 1000)
stopResolved ==
    /\ stopPhase = "call"
    /\ stopPhase' = "timer"
    /\ lastAct' = Act("stopResolved")
    /\ sent' = NoCall
    /\ toast' = "success"
    /\ UNCHANGED <<stopping, elapsed, workflow, polling, counters, analyzeCalls,
                   submitting>>

\* A faulty stopRejected: the catch without setStopping(false)
stopRejectedStaysDisabled ==
    /\ stopPhase = "call"
    /\ stopPhase' = "live"
    /\ stopping' = stopping
    /\ lastAct' = Act("stopRejected")
    /\ sent' = NoCall
    /\ toast' = "error"
    /\ UNCHANGED <<elapsed, workflow, polling, counters, analyzeCalls,
                   submitting>>

\* The awaited POST /stop-simulation rejects: toast.error(...),
\* setStopping(false)
stopRejected ==
    /\ stopPhase = "call"
    /\ stopPhase' = "live"
    /\ stopping' = FALSE
    /\ lastAct' = Act("stopRejected")
    /\ sent' = NoCall
    /\ toast' = "error"
    /\ UNCHANGED <<elapsed, workflow, polling, counters, analyzeCalls,
                   submitting>>

\* The one-second timeout set by stopResolved fires: navigate() unmounts the
\* cockpit.  Its state is discarded, its intervals are cleared, and the calls
\* still in flight complete into no component.
navigateReport ==
    /\ stopPhase = "timer"
    /\ stopPhase' = "report"
    /\ logs' = <<>>
    /\ selectedLog' = Null
    /\ analysis' = Null
    /\ analysing' = FALSE
    /\ showModal' = FALSE
    /\ stopping' = FALSE
    /\ elapsed' = 0
    /\ decisionsCount' = 0
    /\ correctCount' = 0
    /\ paused' = FALSE
    /\ modal' = Null
    /\ fetching' = 0
    /\ analyzeCalls' = [i \in EventIds |-> 0]
    /\ submitting' = 0
    /\ Quiet("navigateReport")

(* ---------------------------- Stats Aggregator ------------------------- *)
Min(a, b) == IF a <= b THEN a ELSE b

\* const stats = {total: logs.length, anomalies: logs.filter(...).length, ...}
stats ==
    [total     |-> Len(logs),
     anomalies |-> Len(SelectSeq(logs, LAMBDA l : l.is_anomaly)),
     critical  |-> Len(SelectSeq(logs, LAMBDA l : l.severity = "critical")),
     high      |-> Len(SelectSeq(logs, LAMBDA l : l.severity = "high"))]

\* A faulty riskScore: the weighted sum without Math.min(100, ...)
riskScoreUnclamped ==
    (stats.critical * 10) + (stats.high * 5) + (stats.anomalies * 2)

\* Math.min(100, Math.round(critical*10 + high*5 + anomalies*2)): the sum of
\* whole numbers is whole, and Math.round returns a whole number as it is
riskScore ==
    Min(100, (stats.critical * 10) + (stats.high * 5) + (stats.anomalies * 2))

\* logs.reduce((acc, l) => ...): one count per label that is truthy and not
\* 'benign', the properties of acc in the order they were created
RECURSIVE CountLabels(_, _)
CountLabels(s, acc) ==
    IF s = <<>>
    THEN acc
    ELSE LET name == Head(s).threat_label
             at == {i \in 1..Len(acc) : acc[i].name = name}
         IN  IF name # "" /\ name # "benign"
             THEN IF at = {}
                  THEN CountLabels(Tail(s), Append(acc, [name |-> name, count |-> 1]))
                  ELSE CountLabels(Tail(s),
                           [i \in 1..Len(acc) |->
                               IF i \in at
                               THEN [acc[i] EXCEPT !.count = @ + 1]
                               ELSE acc[i]])
             ELSE CountLabels(Tail(s), acc)

\* The value of a label that is a canonical array index ("0", "7", "404"),
\* -1 for any other label of the stream
ArrayIndex(name) ==
    CASE name = "404" -> 404
      [] OTHER -> -1

\* Object.entries(acc): the properties whose key is an array index first, in
\* ascending order of the index, then the other properties in the order they
\* were created
RECURSIVE InsertByIndex(_, _)
InsertByIndex(sorted, e) ==
    IF sorted = <<>>
    THEN <<e>>
    ELSE IF ArrayIndex(Head(sorted).name) < ArrayIndex(e.name)
         THEN <<Head(sorted)>> \o InsertByIndex(Tail(sorted), e)
         ELSE <<e>> \o sorted

RECURSIVE SortByIndex(_)
SortByIndex(s) ==
    IF s = <<>>
    THEN <<>>
    ELSE InsertByIndex(SortByIndex(Tail(s)), Head(s))

ObjectEntries(acc) ==
    SortByIndex(SelectSeq(acc, LAMBDA e : ArrayIndex(e.name) >= 0))
        \o SelectSeq(acc, LAMBDA e : ArrayIndex(e.name) < 0)

\* name.replace(/_/g, ' ') on the labels of the stream
DisplayName(name) ==
    CASE name = "brute_force" -> "brute force"
      [] name = "sql_injection" -> "sql injection"
      [] name = "lateral_movement" -> "lateral movement"
      [] name = "data_exfil" -> "data exfil"
      [] name = "zero_day" -> "zero day"
      [] OTHER -> name

\* .sort((a, b) => b.count - a.count): Array.prototype.sort is stable, so
\* entries of equal count keep the order they had
RECURSIVE InsertByCount(_, _)
InsertByCount(sorted, e) ==
    IF sorted = <<>>
    THEN <<e>>
    ELSE IF Head(sorted).count >= e.count
         THEN <<Head(sorted)>> \o InsertByCount(Tail(sorted), e)
         ELSE <<e>> \o sorted

RECURSIVE SortByCount(_)
SortByCount(s) ==
    IF s = <<>>
    THEN <<>>
    ELSE InsertByCount(SortByCount(SubSeq(s, 1, Len(s) - 1)), s[Len(s)])

\* A faulty threatDist: the chain without .slice(0, 6)
threatDistUncut ==
    LET counted == ObjectEntries(CountLabels(logs, <<>>))
        mapped == [i \in 1..Len(counted) |->
                     [name |-> DisplayName(counted[i].name), count |-> counted[i].count]]
    IN  SortByCount(mapped)

\* Object.entries(logs.reduce(...)).map(...).sort(...).slice(0, 6); the
\* colour of an entry is left out
threatDist ==
    LET counted == ObjectEntries(CountLabels(logs, <<>>))
        mapped == [i \in 1..Len(counted) |->
                     [name |-> DisplayName(counted[i].name), count |-> counted[i].count]]
        sorted == SortByCount(mapped)
    IN  SubSeq(sorted, 1, Min(6, Len(sorted)))

\* The placeholder of accuracy, an em dash in the source
Dash == "-"

\* A faulty accuracy: the percentage cut to a whole number, not rounded
accuracyTruncated ==
    IF decisionsCount > 0
    THEN ToString((correctCount * 100) \div decisionsCount)
    ELSE Dash

\* ((correctCount / decisionsCount) * 100).toFixed(0), or the dash.  toFixed(0)
\* gives the nearest whole number as a string, the larger one of two that
\* are equally near.
accuracy ==
    IF decisionsCount > 0
    THEN ToString(((correctCount * 200) + decisionsCount) \div (2 * decisionsCount))
    ELSE Dash

(* ------------------------------ Next ---------------------------------- *)
\* The program, every handler, interval callback and completion, with the
\* tally of the submit calls that have resolved
Tally ==
    /\ succeeded' = succeeded + 1
    /\ UNCHANGED <<sinceSelect, lastPoll, formLog, submits, feed>>

Next ==
    \/ pollTick /\ UNCHANGED history
    \/ (\E data \in Snapshots : fetchResolved(data)) /\ UNCHANGED history
    \/ fetchRejected /\ UNCHANGED history
    \/ togglePaused /\ UNCHANGED history
    \/ clockTick /\ UNCHANGED history
    \/ (\E log \in Events : analyzeLog(log)) /\ UNCHANGED history
    \/ (\E log \in Events : analyzeResolved(log)) /\ UNCHANGED history
    \/ (\E log \in Events : analyzeRejected(log)) /\ UNCHANGED history
    \/ openDecisionForm /\ UNCHANGED history
    \/ onClose /\ UNCHANGED history
    \/ (\E l \in THREAT_LABELS : setLabel(l)) /\ UNCHANGED history
    \/ modalTick /\ UNCHANGED history
    \/ submitDecision /\ UNCHANGED history
    \/ (\E correct \in BOOLEAN : submitResolved(correct)) /\ Tally
    \/ submitRejected /\ UNCHANGED history
    \/ stopSimulation /\ UNCHANGED history
    \/ stopResolved /\ UNCHANGED history
    \/ stopRejected /\ UNCHANGED history
    \/ navigateReport /\ UNCHANGED history

Spec == Init /\ [][Next]_vars

\* The program with the history of the decision timer: sinceSelect counts
\* the ticks of the decision timer since the last select, and formLog is the
\* id of the event that was selected when the mounted form was mounted (0
\* while no form is mounted)
FormHistory ==
    formLog' = IF modal' = Null THEN 0
               ELSE IF modal = Null THEN selectedLog'.id
               ELSE formLog
SelectHistory == sinceSelect' = 0 /\ FormHistory /\ UNCHANGED <<lastPoll, calls>>
TickHistory ==
    /\ sinceSelect < MaxTimer
    /\ sinceSelect' = sinceSelect + 1
    /\ UNCHANGED <<lastPoll, formLog, calls>>
MountHistory == FormHistory /\ UNCHANGED <<sinceSelect, lastPoll, calls>>

NextTimer ==
    \/ pollTick /\ UNCHANGED history
    \/ (\E data \in Snapshots : fetchResolved(data)) /\ UNCHANGED history
    \/ fetchRejected /\ UNCHANGED history
    \/ togglePaused /\ UNCHANGED history
    \/ clockTick /\ UNCHANGED history
    \/ (\E log \in Events : analyzeLog(log)) /\ SelectHistory
    \/ (\E log \in Events : analyzeResolved(log)) /\ MountHistory
    \/ (\E log \in Events : analyzeRejected(log)) /\ UNCHANGED history
    \/ openDecisionForm /\ MountHistory
    \/ onClose /\ MountHistory
    \/ (\E l \in THREAT_LABELS : setLabel(l)) /\ UNCHANGED history
    \/ modalTick /\ TickHistory
    \/ submitDecision /\ UNCHANGED history
    \/ (\E correct \in BOOLEAN : submitResolved(correct)) /\ MountHistory
    \/ submitRejected /\ UNCHANGED history
    \/ stopSimulation /\ UNCHANGED history
    \/ stopResolved /\ UNCHANGED history
    \/ stopRejected /\ UNCHANGED history
    \/ navigateReport /\ SelectHistory

SpecTimer == Init /\ [][NextTimer]_vars

\* The program with the history of its submit calls: submits.cur is the
\* number of submit calls in flight that were issued since the last select,
\* submits.done the number of those that have resolved, submits.of the id
\* of the event they were issued for, submits.old the id of the event whose
\* submit call the last select found in flight (0 when none was ever
\* found).  A completion is that of a call issued since the
\* last select or of an older one.  Two decisions may be in the making at
\* once.
SubmitIssued ==
    /\ submits' = [submits EXCEPT !.cur = @ + 1, !.of = selectedLog.id]
    /\ UNCHANGED <<sinceSelect, lastPoll, formLog, succeeded, feed>>
SubmitResolvedHistory ==
    /\ \/ submits.cur > 0 /\ submits' = [submits EXCEPT !.cur = @ - 1, !.done = @ + 1]
       \/ submitting > submits.cur /\ submits' = submits
    /\ UNCHANGED <<sinceSelect, lastPoll, formLog, succeeded, feed>>
SubmitRejectedHistory ==
    /\ \/ submits.cur > 0 /\ submits' = [submits EXCEPT !.cur = @ - 1]
       \/ submitting > submits.cur /\ submits' = submits
    /\ UNCHANGED <<sinceSelect, lastPoll, formLog, succeeded, feed>>
SelectFindsSubmits ==
    /\ submits' = [cur |-> 0, done |-> 0, of |-> 0,
                   old |-> IF submits.cur > 0 THEN submits.of ELSE submits.old]
    /\ UNCHANGED <<sinceSelect, lastPoll, formLog, succeeded, feed>>
SubmitsReset ==
    /\ submits' = [cur |-> 0, done |-> 0, of |-> 0, old |-> 0]
    /\ UNCHANGED <<sinceSelect, lastPoll, formLog, succeeded, feed>>

NextSubmits ==
    \/ pollTick /\ UNCHANGED history
    \/ (\E data \in Snapshots : fetchResolved(data)) /\ UNCHANGED history
    \/ fetchRejected /\ UNCHANGED history
    \/ togglePaused /\ UNCHANGED history
    \/ clockTick /\ UNCHANGED history
    \/ (\E log \in Events : analyzeLog(log)) /\ SelectFindsSubmits
    \/ (\E log \in Events : analyzeResolved(log)) /\ UNCHANGED history
    \/ (\E log \in Events : analyzeRejected(log)) /\ UNCHANGED history
    \/ openDecisionForm /\ UNCHANGED history
    \/ onClose /\ UNCHANGED history
    \/ (\E l \in THREAT_LABELS : setLabel(l)) /\ UNCHANGED history
    \/ modalTick /\ UNCHANGED history
    \/ submitDecisionWithin(MaxDecisions + 1) /\ SubmitIssued
    \/ (\E correct \in BOOLEAN : submitResolved(correct)) /\ SubmitResolvedHistory
    \/ submitRejected /\ SubmitRejectedHistory
    \/ stopSimulation /\ UNCHANGED history
    \/ stopResolved /\ UNCHANGED history
    \/ stopRejected /\ UNCHANGED history
    \/ navigateReport /\ SubmitsReset

SpecSubmits == Init /\ [][NextSubmits]_vars

\* The program with the history of the polling effect.  The fetches in
\* flight are ordered by their issue; feed.stale is the number of them that
\* were issued before the fetch whose answer the store holds, so the k-th
\* oldest fetch in flight that resolves replaces a newer answer when
\* k <= feed.stale (feed.regressed).  feed.restarted: the effect was torn
\* down and run again, which clears the clock interval and sets a new one.
FetchResolvedHistory ==
    /\ \E k \in 1..fetching :
          feed' = [feed EXCEPT !.stale = k - 1, !.regressed = (k <= feed.stale)]
    /\ UNCHANGED <<sinceSelect, lastPoll, formLog, succeeded, submits>>
FetchRejectedHistory ==
    /\ \E k \in 1..fetching :
          feed' = [feed EXCEPT !.stale = IF k <= @ THEN @ - 1 ELSE @]
    /\ UNCHANGED <<sinceSelect, lastPoll, formLog, succeeded, submits>>
EffectHistory ==
    /\ feed' = [feed EXCEPT !.restarted = TRUE]
    /\ UNCHANGED <<sinceSelect, lastPoll, formLog, succeeded, submits>>
FeedReset ==
    /\ feed' = [stale |-> 0, regressed |-> FALSE, restarted |-> FALSE]
    /\ UNCHANGED <<sinceSelect, lastPoll, formLog, succeeded, submits>>

NextFeed ==
    \/ pollTick /\ UNCHANGED history
    \/ (\E data \in Snapshots : fetchResolved(data)) /\ FetchResolvedHistory
    \/ fetchRejected /\ FetchRejectedHistory
    \/ togglePaused /\ EffectHistory
    \/ clockTick /\ UNCHANGED history
    \/ (\E log \in Events : analyzeLog(log)) /\ UNCHANGED history
    \/ (\E log \in Events : analyzeResolved(log)) /\ UNCHANGED history
    \/ (\E log \in Events : analyzeRejected(log)) /\ UNCHANGED history
    \/ openDecisionForm /\ UNCHANGED history
    \/ onClose /\ UNCHANGED history
    \/ (\E l \in THREAT_LABELS : setLabel(l)) /\ UNCHANGED history
    \/ modalTick /\ UNCHANGED history
    \/ submitDecision /\ UNCHANGED history
    \/ (\E correct \in BOOLEAN : submitResolved(correct)) /\ UNCHANGED history
    \/ submitRejected /\ UNCHANGED history
    \/ stopSimulation /\ UNCHANGED history
    \/ stopResolved /\ UNCHANGED history
    \/ stopRejected /\ UNCHANGED history
    \/ navigateReport /\ FeedReset

SpecFeed == Init /\ [][NextFeed]_vars

\* The Stream Synchronizer and the Stats Aggregator on their own, from any
\* store with a poll in flight: lastPoll records each stored answer and the
\* number of events the store held before it
InitStats ==
    /\ logs \in StoreContents
    /\ selectedLog = Null
    /\ analysis = Null
    /\ analysing = FALSE
    /\ showModal = FALSE
    /\ stopping = FALSE
    /\ elapsed = 0
    /\ decisionsCount = 0
    /\ correctCount = 0
    /\ paused = FALSE
    /\ modal = Null
    /\ fetching = 1
    /\ analyzeCalls = [i \in EventIds |-> 0]
    /\ submitting = 0
    /\ stopPhase = "live"
    /\ sinceSelect = 0
    /\ lastPoll = [data |-> logs, before |-> Len(logs)]
    /\ formLog = 0
    /\ succeeded = 0
    /\ submits = [cur |-> 0, done |-> 0, of |-> 0, old |-> 0]
    /\ feed = [stale |-> 0, regressed |-> FALSE, restarted |-> FALSE]
    /\ lastAct = Act("pollTick")
    /\ sent = GetLogs
    /\ toast = NoToast

PollHistory(data) ==
    /\ lastPoll' = [data |-> data, before |-> Len(logs)]
    /\ UNCHANGED <<sinceSelect, formLog, calls>>

NextStats ==
    \/ pollTick /\ UNCHANGED history
    \/ \E data \in Windows : fetchResolved(data) /\ PollHistory(data)
    \/ fetchRejected /\ UNCHANGED history

SpecStats == InitStats /\ [][NextStats]_vars

\* The Session Aggregates on their own: a submit is in flight from the open
\* form of a session that has made any number of decisions
InitScore ==
    /\ logs = <<E1>>
    /\ selectedLog = E1
    /\ analysis = AnalysisOf(E1)
    /\ analysing = FALSE
    /\ showModal = TRUE
    /\ stopping = FALSE
    /\ elapsed = 0
    /\ decisionsCount \in 0..MaxMade
    /\ correctCount \in 0..decisionsCount
    /\ paused = FALSE
    /\ modal = NewModal(E1)
    /\ fetching = 0
    /\ analyzeCalls = [i \in EventIds |-> 0]
    /\ submitting = 1
    /\ stopPhase = "live"
    /\ sinceSelect = 0
    /\ lastPoll = [data |-> <<>>, before |-> 0]
    /\ formLog = 0
    /\ succeeded = 0
    /\ submits = [cur |-> 0, done |-> 0, of |-> 0, old |-> 0]
    /\ feed = [stale |-> 0, regressed |-> FALSE, restarted |-> FALSE]
    /\ lastAct = Act("submitDecision")
    /\ sent = DecisionPayload(E1, NewModal(E1).label, 0)
    /\ toast = NoToast

NextScore ==
    \/ (\E correct \in BOOLEAN : submitResolved(correct)) /\ UNCHANGED history
    \/ submitRejected /\ UNCHANGED history

SpecScore == InitScore /\ [][NextScore]_vars

(* ======================================================================= *)
(*                               Properties                                *)
(* ======================================================================= *)

\* C1: whatever the interleaving of select(X), select(Y) and the completions
\* of their analyze calls, the Analysis Result held while an event is
\* selected is the result of an analyze call for that event, never for
\* another one.
C1_NoCrossEventAnalysis ==
    (selectedLog # Null /\ analysis # Null) => analysis.log_id = selectedLog.id

\* C2: in every reachable state, no event selected implies no Analysis
\* Result held.
C2_NoAnalysisWithoutSelection ==
    selectedLog = Null => analysis = Null

\* C3: while synchronization stays paused nothing changes the Event Store,
\* and a poll tick that fires while paused issues no fetch.
C3_PausedStoreFrozen ==
    [][/\ (paused /\ paused') => logs' = logs
       /\ (paused /\ lastAct'.name = "pollTick") => (sent' = NoCall /\ fetching' = fetching)
      ]_vars

\* C4: the resume of the feed issues at most one fetch whatever number of
\* ticks was dropped during the pause, every poll tick that fires while the
\* feed is not paused issues exactly one fetch, and a tick that fires while
\* it is paused issues none and leaves nothing behind to be replayed.
C4_ResumeThenTickFetches ==
    [][/\ (lastAct'.name = "togglePaused" /\ paused) =>
            (~paused' /\ fetching' \in {fetching, fetching + 1})
       /\ (lastAct'.name = "pollTick" /\ ~paused) =>
            (sent' = GetLogs /\ fetching' = fetching + 1)
       /\ (lastAct'.name = "pollTick" /\ paused) =>
            (paused' /\ fetching' = fetching)
      ]_vars

\* C4 witness: the feed has just been resumed and its fetch is the only one
\* in flight
C4_Witness ==
    lastAct.name = "togglePaused" /\ ~paused /\ sent = GetLogs /\ fetching = 1

\* C5: a failed poll fetch leaves the Event Store, the workflow state and
\* the counters as they were and raises no notice, and a poll tick that
\* follows it while the feed is not paused issues a fetch.
C5_FailedFetchIsSilent ==
    [][/\ lastAct'.name = "fetchRejected" =>
            (toast' = NoToast /\ UNCHANGED <<logs, workflow, counters, paused>>)
       /\ (lastAct.name = "fetchRejected" /\ lastAct'.name = "pollTick" /\ ~paused) =>
            sent' = GetLogs
      ]_vars

\* C5 witness: a fetch has failed while the store held events and an event
\* was selected
C5_Witness ==
    lastAct.name = "fetchRejected" /\ logs # <<>> /\ selectedLog # Null

\* C6: a successful submit adds exactly 1 to 'decisions made', adds 1 to
\* 'decisions correct' exactly when the service answered correct=true,
\* closes the decision form and clears the selection.
C6_SubmitSuccess ==
    [][lastAct'.name = "submitResolved" =>
        /\ decisionsCount' = decisionsCount + 1
        /\ correctCount' = correctCount + (IF lastAct'.correct THEN 1 ELSE 0)
        /\ ~showModal'
        /\ modal' = Null
        /\ selectedLog' = Null
      ]_vars

\* C6 witness: a submit answered correct=true has completed
C6_Witness ==
    /\ lastAct.name = "submitResolved" /\ lastAct.correct
    /\ decisionsCount = 1 /\ correctCount = 1

\* C7: a failed submit leaves both counters, the selected event, its
\* Analysis Result, the decision form and its timer as they were, and a
\* retry sends the time the timer has accumulated.
C7_SubmitFailureKeepsState ==
    [][/\ lastAct'.name = "submitRejected" =>
            (toast' = "error" /\ UNCHANGED <<counters, selectedLog, analysis, showModal, modal>>)
       /\ (lastAct.name = "submitRejected" /\ lastAct'.name = "submitDecision") =>
            sent'.time_taken_sec = modal.elapsed
      ]_vars

\* C7 witness: a submit has failed with the form open and its timer running
C7_Witness ==
    /\ lastAct.name = "submitRejected"
    /\ modal # Null /\ modal.elapsed > 0
    /\ selectedLog # Null /\ analysis # Null

\* C8: after the analyze call for the currently selected event has failed,
\* the event is still selected, no Analysis Result is held, the analyzing
\* indicator is off, the decision form is not open and an error notice is
\* raised.
C8_AnalyzeFailureBackToSelected ==
    (lastAct.name = "analyzeRejected" /\ selectedLog # Null
        /\ selectedLog.id = lastAct.log_id) =>
    (analysis = Null /\ ~analysing /\ ~showModal /\ toast = "error")

\* C9: cancel closes the decision form, sends nothing, and leaves the
\* selected event, its Analysis Result, both counters and the Event Store
\* as they were, so an event stays selected.
C9_CancelKeepsEvent ==
    [][lastAct'.name = "onClose" =>
        /\ ~showModal' /\ modal' = Null
        /\ sent' = NoCall
        /\ selectedLog' # Null
        /\ UNCHANGED <<selectedLog, analysis, analysing, counters, logs>>
      ]_vars

\* C9 witness: the form has been cancelled with an analyzed event selected
C9_Witness ==
    /\ lastAct.name = "onClose"
    /\ selectedLog # Null /\ analysis # Null /\ ~analysing /\ ~showModal

\* C10: the decision timer of an open form shows the ticks since the select
\* of the event (0 at the select itself), and the elapsed seconds sent with
\* a submit are the ticks since that select.
C10_TimerCountsFromSelect ==
    /\ modal # Null => modal.elapsed = sinceSelect
    /\ lastAct.name = "submitDecision" => sent.time_taken_sec = sinceSelect

\* C11: for every content of the Event Store, riskScore is 10 * critical +
\* 5 * high + 2 * anomalies of the current snapshot, cut off at 100, so it
\* lies in 0..100 and depends on the three counts only; one critical
\* anomalous event plus one high non-anomalous event give a total of 2,
\* 1 anomaly, 1 critical, 1 high and a riskScore of 17.
C11_RiskScore ==
    LET n(pred(_)) == Cardinality({i \in 1..Len(logs) : pred(logs[i])})
        critical == n(LAMBDA l : l.severity = "critical")
        high == n(LAMBDA l : l.severity = "high")
        anomalies == n(LAMBDA l : l.is_anomaly)
        raw == 10 * critical + 5 * high + 2 * anomalies
    IN  /\ riskScore \in 0..100
        /\ riskScore = IF raw > 100 THEN 100 ELSE raw
        /\ logs = <<E1, E2>> =>
              /\ stats = [total |-> 2, anomalies |-> 1, critical |-> 1, high |-> 1]
              /\ riskScore = 17

\* C11 witness: the store holds the two events of the example
C11_Witness ==
    logs = <<E1, E2>> /\ lastAct.name = "fetchResolved" /\ riskScore = 17

\* C12: after any sequence of polls the Event Store is the answer stored
\* last, and total, anomalies, critical and high count the events of that
\* answer alone: its events, those with the anomaly flag, and those of
\* critical and of high severity.
C12_StatsOfLastSnapshot ==
    LET data == lastPoll.data
        n(pred(_)) == Cardinality({i \in 1..Len(data) : pred(data[i])})
    IN  /\ logs = data
        /\ stats.total = Len(data)
        /\ stats.anomalies = n(LAMBDA l : l.is_anomaly)
        /\ stats.critical = n(LAMBDA l : l.severity = "critical")
        /\ stats.high = n(LAMBDA l : l.severity = "high")

\* C12 witness: a poll has replaced the store with a smaller snapshot that
\* still holds events, and every count went down with it
C12_Witness ==
    /\ lastAct.name = "fetchResolved"
    /\ stats.total > 0 /\ stats.total < lastPoll.before
    /\ stats.anomalies < stats.total /\ stats.critical < stats.total

\* C13: for every content of the Event Store, threatDistribution has at
\* most 6 entries, none for 'benign' and none for events without a label;
\* each entry's count is the number of events carrying its label; the counts
\* do not increase along the list; and a label left out has a count no
\* greater than that of every label included.
C13_ThreatDistribution ==
    LET labels == {logs[i].threat_label : i \in 1..Len(logs)} \ {"", "benign"}
        carrying(l) == Cardinality({i \in 1..Len(logs) : logs[i].threat_label = l})
        dist == threatDist
        shown == 1..Len(dist)
    IN  /\ Len(dist) <= 6
        /\ \A i \in shown :
              /\ dist[i].name \notin {"benign", ""}
              /\ \E l \in labels :
                    /\ dist[i].name = DisplayName(l)
                    /\ dist[i].count = carrying(l)
        /\ \A i, j \in shown :
              /\ i < j => dist[i].count >= dist[j].count
              /\ i # j => dist[i].name # dist[j].name
        /\ \A l \in labels :
              (\A i \in shown : dist[i].name # DisplayName(l)) =>
                  (\A i \in shown : carrying(l) <= dist[i].count)

\* C13 witness: the store holds more than 6 labels, a benign event and an
\* event without a label, and a label carried twice leads the list
C13_Witness ==
    /\ lastAct.name = "fetchResolved"
    /\ Cardinality({logs[i].threat_label : i \in 1..Len(logs)} \ {"", "benign"}) > 6
    /\ Len(threatDist) = 6
    /\ \E i, j \in 1..Len(logs) :
          logs[i].threat_label = "benign" /\ logs[j].threat_label = ""
    /\ threatDist[1].count = 2 /\ threatDist[6].count = 1

\* C14: accuracy is decisionsCorrect / decisionsMade * 100 as the nearest
\* whole number when decisionsMade > 0, and the dash, with no division,
\* when decisionsMade = 0.
C14_Accuracy ==
    /\ decisionsCount = 0 => accuracy = Dash
    /\ decisionsCount > 0 =>
          \E n \in 0..100 :
              /\ accuracy = ToString(n)
              /\ LET off == (n * decisionsCount) - (100 * correctCount)
                 IN  2 * (IF off < 0 THEN -off ELSE off) <= decisionsCount

\* C14 witness: the third decision of a session was its second correct one
C14_Witness ==
    /\ lastAct.name = "submitResolved"
    /\ decisionsCount = 3 /\ correctCount = 2 /\ accuracy = "67"

\* C15: while the cockpit is mounted no step lowers 'decisions made' or
\* 'decisions correct', and the only step that changes either of them is
\* the completion of a successful submit.
C15_CountersMonotonic ==
    [][stopPhase' # "report" =>
        /\ decisionsCount' >= decisionsCount
        /\ correctCount' >= correctCount
        /\ counters' # counters => lastAct'.name = "submitResolved"
      ]_vars

\* C15 witness: a decision has been counted, another event was selected and
\* its form cancelled, and the counters still show the decision
C15_Witness ==
    /\ decisionsCount = 1 /\ correctCount = 0
    /\ lastAct.name = "onClose" /\ selectedLog # Null

\* C16: from the moment stopSimulation is invoked, as long as it has not
\* failed, no step issues a GET /get-logs.
C16_NoFetchAfterStop ==
    stopPhase \in {"call", "timer"} => sent # GetLogs

\* C17: the stop action is disabled while a stopSession call is in flight
\* and after one has succeeded, so a stopSession call is issued only when
\* none is in flight and none has succeeded, and the hand-off to the report
\* happens only after a stopSession call has succeeded.
C17_StopOnce ==
    [][/\ stopPhase \in {"call", "timer"} => stopping
       /\ lastAct'.name = "stopSimulation" =>
            (~stopping /\ stopPhase = "live" /\ stopPhase' = "call")
       /\ (stopPhase # "timer" /\ stopPhase' = "timer") =>
            (stopPhase = "call" /\ lastAct'.name = "stopResolved")
       /\ (stopPhase # "report" /\ stopPhase' = "report") =>
            (stopPhase = "timer" /\ lastAct'.name = "navigateReport")
      ]_vars

\* C17 witness: the report has been handed to
C17_Witness ==
    stopPhase = "report" /\ lastAct.name = "navigateReport"

\* C18: a failed stopSession call raises an error notice, makes the stop
\* action available again, hands nothing to the report and leaves polling
\* as it was: the store, the pause state and the fetches in flight are
\* unchanged and the next poll tick of an unpaused feed issues a fetch.
C18_StopFailureRecovers ==
    [][/\ lastAct'.name = "stopRejected" =>
            /\ toast' = "error"
            /\ ~stopping' /\ stopPhase' = "live"
            /\ UNCHANGED <<polling, workflow, counters, elapsed>>
       /\ lastAct.name = "stopRejected" =>
            /\ lastAct'.name # "navigateReport"
            /\ (lastAct'.name = "pollTick" /\ ~paused) => sent' = GetLogs
      ]_vars

\* C18 witness: a stop has failed in a session whose feed is not paused
C18_Witness ==
    /\ lastAct.name = "stopRejected"
    /\ toast = "error" /\ ~stopping /\ ~paused /\ logs # <<>>

\* C19: a poll tick and the completion of its fetch leave the selected
\* event with all its fields (also when the new snapshot holds no event of
\* its id), the Analysis Result, the analyzing flag, the decision form and
\* its timer, both counters and the analyze and submit calls in flight as
\* they were; a tick leaves the Event Store as it was too.
C19_PollFrame ==
    [][/\ lastAct'.name \in {"pollTick", "fetchResolved", "fetchRejected"} =>
            UNCHANGED <<workflow, counters, analyzeCalls, submitting, paused, session>>
       /\ lastAct'.name = "pollTick" => logs' = logs
      ]_vars

\* C19 witness: with the form open for an event and its submit in flight, a
\* poll has stored a snapshot that no longer holds the event
C19_Witness ==
    /\ lastAct.name = "fetchResolved"
    /\ selectedLog = E2 /\ logs = <<E1>>
    /\ modal # Null /\ submitting = 1

\* C20: every submit-decision call carries the id and the true label of
\* the event selected last, and that event is the one the open form, with
\* its label state and its timer, was started for.
C20_NoCrossEventSubmit ==
    lastAct.name = "submitDecision" =>
        /\ sent.log_id = formLog
        /\ sent.log_id = selectedLog.id
        /\ sent.correct_label =
              (IF selectedLog.threat_label # "" THEN selectedLog.threat_label
               ELSE DefaultLabel)

\* C21: the completion of a submit call for an event X, the only submit
\* call in flight, that arrives after another event Y was selected leaves
\* Y selected and leaves its Analysis Result, its analyze call in flight
\* and the state of its decision form as they were.
C21_LateSubmitKeepsNewer ==
    [][(/\ lastAct'.name = "submitResolved"
        /\ submitting = 1 /\ submits.cur = 0
        /\ selectedLog # Null /\ selectedLog.id # submits.old) =>
          UNCHANGED <<selectedLog, analysis, analysing, showModal, modal, analyzeCalls>>
      ]_vars

C23_SubmitOnce ==
    submits.done <= 1

\* C24: while the cockpit is mounted the session clock goes up by one on a
\* clock tick and is left alone by every other step, and no step clears
\* its one-second interval and sets a new one.
C24_ClockIndependent ==
    [][stopPhase' # "report" =>
        /\ elapsed' = IF lastAct'.name = "clockTick" THEN elapsed + 1 ELSE elapsed
        /\ ~feed'.restarted
      ]_vars

\* C25: in threatDistribution, labels of equal count appear in the order in
\* which each label first occurs in the Event Store, whatever the text of
\* the label (labels that read as numbers included), and of the labels tied
\* at the cut to 6 those that occur first are the ones kept.
C25_TiesFirstSeen ==
    LET dist == threatDist
        shown == 1..Len(dist)
        labels == {logs[i].threat_label : i \in 1..Len(logs)} \ {"", "benign"}
        carrying(l) == Cardinality({i \in 1..Len(logs) : logs[i].threat_label = l})
        firstSeen(l) == CHOOSE i \in 1..Len(logs) :
                           /\ logs[i].threat_label = l
                           /\ \A k \in 1..(i - 1) : logs[k].threat_label # l
        labelOf(e) == CHOOSE l \in labels : DisplayName(l) = e.name
    IN  /\ \A i, j \in shown :
              (i < j /\ dist[i].count = dist[j].count) =>
                  firstSeen(labelOf(dist[i])) < firstSeen(labelOf(dist[j]))
        /\ \A l \in labels :
              (\A i \in shown : dist[i].name # DisplayName(l)) =>
                  \A i \in shown :
                      dist[i].count = carrying(l) =>
                          firstSeen(labelOf(dist[i])) < firstSeen(l)

\* C26: every submitDecision call carries the id of the event selected when
\* submit was triggered, and as true label that event's threat label when it
\* has one and 'brute_force' when it has none.
C26_PayloadOfSelected ==
    lastAct.name = "submitDecision" =>
        /\ selectedLog # Null
        /\ sent.api = "submit-decision"
        /\ sent.log_id = selectedLog.id
        /\ selectedLog.threat_label # "" => sent.correct_label = selectedLog.threat_label
        /\ selectedLog.threat_label = "" => sent.correct_label = "brute_force"

\* C26 witness: a decision on an event without a label was sent, with
\* 'brute_force' as its true label
C26_Witness ==
    /\ lastAct.name = "submitDecision"
    /\ selectedLog = E2
    /\ sent.log_id = 2 /\ sent.correct_label = "brute_force"

\* C27: whenever the decision-form flag is on, an event is selected, the
\* Analysis Result held is that event's and no analyze call for the event
\* is in flight.
C27_FormNeedsAnalysis ==
    showModal =>
        /\ selectedLog # Null
        /\ analysis # Null
        /\ analysis.log_id = selectedLog.id
        /\ analyzeCalls[selectedLog.id] = 0

\* C28: the analyzing flag is on exactly when an analyze call for the
\* selected event is in flight; in particular it is off once every analyze
\* call has completed.
C28_AnalysingIffInFlight ==
    analysing <=> (selectedLog # Null /\ analyzeCalls[selectedLog.id] > 0)

\* C29: a response to an older fetch that arrives after the response to a
\* newer fetch does not replace it in the Event Store.
C29_NewestFetchWins ==
    ~feed.regressed

\* What toFixed(0) gives for the whole numbers 0 to 100
Percentages == {ToString(n) : n \in 0..100}

\* C30: while the cockpit is shown, 0 <= decisionsCorrect <= decisionsMade,
\* decisionsMade is the number of submitDecision calls that have succeeded,
\* and accuracy, when it is a number, is one of 0..100.
C30_CountersBounded ==
    Mounted =>
        /\ 0 <= correctCount
        /\ correctCount <= decisionsCount
        /\ decisionsCount = succeeded
        /\ decisionsCount > 0 => accuracy \in Percentages

\* C30 witness: a submit call has succeeded with a wrong classification
C30_Witness ==
    /\ lastAct.name = "submitResolved" /\ ~lastAct.correct
    /\ decisionsCount = 1 /\ correctCount = 0 /\ succeeded = 1
    /\ accuracy = "0"

====
